---- MODULE Spec2Model ----
(***************************************************************************)
(* krokodyl (p2p-ui): the transfer registry, the per-transfer execution    *)
(* units and the overwrite-decision rendezvous of app.go.                  *)
(*                                                                         *)
(* Memory is modelled as Go lays it out.  a.transfers is a slice; every    *)
(* registration builds a fresh backing array                               *)
(*     append([]FileTransfer{transfer}, a.transfers...)                    *)
(* so `heap` is the sequence of backing arrays ever allocated and the      *)
(* slice a.transfers is the last one.  A *FileTransfer handed to an        *)
(* execution unit is &array[0] of the array that was current when the      *)
(* expression &a.transfers[0] was evaluated, i.e. an index into heap.      *)
(*                                                                         *)
(* Two versions of performReceive are modelled: the one that receives into *)
(* a temporary directory and asks before it overwrites (Spec), and the     *)
(* earlier one of src/app.go that receives in the destination directory    *)
(* and gives up after 30 seconds (SpecTimeout).                            *)
(***************************************************************************)
EXTENDS Integers, Sequences, FiniteSets, TLC

\* ---------------------------------------------------------------- bounds
MaxCalls == 2        \* SendFile / ReceiveFile calls made by the UI side
MaxResponders == 2   \* RespondToOverwrite calls made by the UI side
MaxFiles == 2        \* files materialized by one collaborator receive
MaxPrior == 2        \* transfers made and finished before the first call

Calls == 1..MaxCalls
Responders == 1..MaxResponders

\* ------------------------------------------------------------ constants
FileTransferStatusPreparing == "preparing"
FileTransferStatusWaiting == "waiting"
FileTransferStatusSending == "sending"
FileTransferStatusReceiving == "receiving"
FileTransferStatusError == "error"
FileTransferStatusCompleted == "completed"

Statuses ==
  { FileTransferStatusPreparing, FileTransferStatusWaiting,
    FileTransferStatusSending, FileTransferStatusReceiving,
    FileTransferStatusError, FileTransferStatusCompleted }

Terminal == { FileTransferStatusError, FileTransferStatusCompleted }

\* ---------------------------------------------------------------- inputs
Names == {"a", "b"}                 \* base names of files
SendPaths == {"a", "missing"}       \* argument of SendFile
ReceiveCodes == {"code"}            \* argument of ReceiveFile
RandomNames == {"rnd"}              \* results of utils.GetRandomName
Decisions == {"yes", "no"}          \* argument of RespondToOverwrite

\* what the destination directory may hold before the first call
DestInit == { {"a"}, {"a", "b"} }

FileSize(n) == IF n = "a" THEN 1 ELSE 2

\* os.Stat(filePath) succeeds
StatOk(path) == path \in Names

\* fmt.Sprintf("send-%d", n) / fmt.Sprintf("receive-%d", n): the string is
\* determined by, and determines, the pair (prefix, n).
Sprintf(prefix, n) == <<prefix, n>>

RespondIds ==
  { Sprintf("receive", n) : n \in 0..(MaxCalls - 1) } \cup { Sprintf("send", 0) }

NoId == <<"none", 0>>
NoChan == <<0, 0>>

\* directories: the one the process starts in, destinationPath, and the
\* directory os.MkdirTemp makes for the unit of call c
StartDir == <<"start", 0>>
DestDir == <<"dest", 0>>
TempDir(c) == <<"krokodyl-", c>>
NoDir == <<"none", 0>>

FileTransfer(id, name, files, size, progress, status, code) ==
  [ ID |-> id, Name |-> name, Files |-> files, Size |-> size,
    Progress |-> progress, Status |-> status, Code |-> code ]

\* a name that is one string
PlainName(str) == <<str>>

NoTransfer == FileTransfer(NoId, PlainName(""), <<>>, 0, 0, "", "")

\* the sequences of distinct names of length 0..MaxFiles: what listFiles
\* returns, in the order the range over the map happens to visit it
RECURSIVE SeqsUpTo(_)
SeqsUpTo(n) ==
  IF n = 0 THEN { <<>> }
  ELSE LET shorter == SeqsUpTo(n - 1) IN
       shorter \cup
       { Append(s, x) : s \in { t \in shorter : Len(t) = n - 1 }, x \in Names }

Distinct(s) == \A i, j \in 1..Len(s) : i # j => s[i] # s[j]

Batches == { s \in SeqsUpTo(MaxFiles) : Distinct(s) }

\* --------------------------------------------------------- file contents
MaxBytes == 1            \* longest file content, in bytes

\* paths are sequences of elements; two of them share their last element
DiffPaths == { <<"x", "a">>, <<"y", "a">>, <<"x", "b">> }

RECURSIVE BytesUpTo(_)
BytesUpTo(n) ==
  IF n = 0 THEN { <<>> }
  ELSE BytesUpTo(n - 1) \cup
       { Append(d, b) : d \in BytesUpTo(n - 1), b \in {0, 1} }

Contents == BytesUpTo(MaxBytes)

\* a path os.ReadFile fails on (missing, a directory, no permission)
NoFile == [ok |-> FALSE, data |-> <<>>]

FileSystems ==
  [DiffPaths -> {NoFile} \cup { [ok |-> TRUE, data |-> d] : d \in Contents }]

\* the string "" and the value returned when no call was made
NoText == <<>>
NoResult == [text |-> NoText, err |-> FALSE]

\* ------------------------------------------------- temporary directories
\* a file of the temporary area: the directory it is in, relative to the
\* area ("" is the area itself), and its base name
TempPaths == {"", "sub"} \X Names

\* made: os.MkdirTemp returned the directory to the unit;
\* there: the directory exists; files: the files in it, at any depth
NoTemp == [made |-> FALSE, there |-> FALSE, files |-> {}]
EmptyTemp == [made |-> TRUE, there |-> TRUE, files |-> {}]

VARIABLES
  heap,                \* backing arrays of a.transfers, in allocation order
  overwriteResponses,  \* a.overwriteResponses: id -> channel
  dest,                \* names of the files present in the destination dir
  callPc,              \* position of each SendFile / ReceiveFile call
  callRec,             \* the local `transfer` of the call
  callArg,             \* the method called and its argument
  ptr,                 \* the *FileTransfer given to the unit (index in heap)
  pc,                  \* position of each execution unit
  batch,               \* receivedFiles of a receive unit
  idx,                 \* index of the file the receive loop is at
  fileNames,           \* local fileNames of a receive unit
  totalSize,           \* local totalSize of a receive unit
  got,                 \* decisions a receive unit took from its channels
  notes,               \* transfer:updated payloads emitted by each unit
  prompts,             \* transfer:overwrite payloads emitted by each unit
  rPc,                 \* position of each RespondToOverwrite call
  rId,                 \* its transferID argument
  rResp,               \* its response argument
  rChan,               \* its local responseChan
  cwd,                 \* the working directory of the process
  currentDir,          \* local currentDir of a receive unit, once deferred
  gPc,                 \* position of the goroutine running crocClient.Receive
  errCh,               \* content of the unit's errCh (capacity 1)
  written,             \* <<directory, name>> of the files that call created
  timedOut,            \* the unit took the time.After case of its select
  seen,                \* statuses an observer read from GetTransfers()
  files,               \* the file system seen by os.ReadFile: path -> file
  diffArgs,            \* file1, file2 of the last getFileDiff call
  diffOut,             \* what that call returned
  temp                 \* the temporary directory of each receive unit

callVars == <<callPc, callRec, callArg, ptr>>
unitVars == <<pc, batch, idx, fileNames, totalSize, got, notes, prompts>>
respVars == <<rPc, rId, rResp, rChan>>
dirVars == <<cwd, currentDir>>
diffVars == <<files, diffArgs, diffOut>>
timedVars == <<gPc, errCh, written, timedOut>>
vars ==
  <<heap, overwriteResponses, dest, callVars, unitVars, respVars, dirVars,
    timedVars, seen, diffVars, temp>>

\* ------------------------------------------------------------- registry
\* the slice a.transfers
transfers == IF Len(heap) = 0 THEN <<>> ELSE heap[Len(heap)]

\* func (a *App) Len() int
AppLen == Len(transfers)

\* func (a *App) GetTransfers() []FileTransfer
GetTransfers == transfers

\* getSendId counting the record that is about to be inserted
getSendIdAfterInsert == Sprintf("send", AppLen + 1)

getSendId == Sprintf("send", AppLen)

getReceiveId == Sprintf("receive", AppLen)

\* Prepend putting the new record at the end
AppendAtEnd(transfer, slice) == slice \o <<transfer>>

\* append([]FileTransfer{transfer}, a.transfers...)
Prepend(transfer, slice) == <<transfer>> \o slice

\* *transfer for the unit of call c
Deref(c) == heap[ptr[c]][1]

\* heap after the unit of call c stored record r through its pointer
Store(c, r) == [heap EXCEPT ![ptr[c]][1] = r]

EmptyMap == [x \in {} |-> NoChan]

MapPut(m, k, v) == [x \in (DOMAIN m) \cup {k} |-> IF x = k THEN v ELSE m[x]]

MapDelete(m, k) == [x \in (DOMAIN m) \ {k} |-> m[x]]

\* everything but the registry, as NewApp and startup leave it
InitRest ==
  /\ overwriteResponses = EmptyMap
  /\ dest \in DestInit
  /\ callPc = [c \in Calls |-> "idle"]
  /\ callRec = [c \in Calls |-> NoTransfer]
  /\ callArg = [c \in Calls |-> <<"", "">>]
  /\ ptr = [c \in Calls |-> 0]
  /\ pc = [c \in Calls |-> "none"]
  /\ batch = [c \in Calls |-> <<>>]
  /\ idx = [c \in Calls |-> 0]
  /\ fileNames = [c \in Calls |-> <<>>]
  /\ totalSize = [c \in Calls |-> 0]
  /\ got = [c \in Calls |-> <<>>]
  /\ notes = [c \in Calls |-> <<>>]
  /\ prompts = [c \in Calls |-> <<>>]
  /\ rPc = [r \in Responders |-> "idle"]
  /\ rId = [r \in Responders |-> NoId]
  /\ rResp = [r \in Responders |-> ""]
  /\ rChan = [r \in Responders |-> NoChan]
  /\ cwd = StartDir
  /\ currentDir = [c \in Calls |-> NoDir]
  /\ gPc = [c \in Calls |-> "none"]
  /\ errCh = [c \in Calls |-> ""]
  /\ written = [c \in Calls |-> {}]
  /\ timedOut = [c \in Calls |-> FALSE]
  /\ seen = <<>>
  /\ temp = [c \in Calls |-> NoTemp]

\* getFileDiff has not been called and no file is readable
NoDiffCall ==
  /\ diffArgs = <<>>
  /\ diffOut = NoResult

InitNoDiff ==
  /\ files = [p \in DiffPaths |-> NoFile]
  /\ NoDiffCall

Init ==
  /\ heap = <<>>
  /\ InitRest
  /\ InitNoDiff

\* calls are interchangeable: call c + 1 is never begun before call c
MayBegin(c) ==
  callPc[c] = "idle" /\ (IF c = 1 THEN TRUE ELSE callPc[c - 1] # "idle")

\* SendFileBegin going on after a failed os.Stat
SendFileBeginIgnoresStat(c) ==
  /\ MayBegin(c)
  /\ \E filePath \in SendPaths :
       /\ callArg' = [callArg EXCEPT ![c] = <<"SendFile", filePath>>]
       /\ callRec' = [callRec EXCEPT ![c] =
            FileTransfer(getSendId, PlainName(filePath), <<filePath>>,
                         FileSize(filePath), 0,
                         FileTransferStatusPreparing, "")]
       /\ callPc' = [callPc EXCEPT ![c] = "built"]
  /\ UNCHANGED <<heap, overwriteResponses, dest, ptr, unitVars, respVars,
                 dirVars, timedVars, seen, diffVars, temp>>

\* SendFile: os.Stat and, when it succeeds, the record built with
\* a.getSendId(); when it fails the call returns "" and the error
SendFileBegin(c) ==
  /\ MayBegin(c)
  /\ \E filePath \in SendPaths :
       /\ callArg' = [callArg EXCEPT ![c] = <<"SendFile", filePath>>]
       /\ IF StatOk(filePath)
          THEN /\ callRec' = [callRec EXCEPT ![c] =
                    FileTransfer(getSendId, PlainName(filePath), <<filePath>>,
                                 FileSize(filePath), 0,
                                 FileTransferStatusPreparing, "")]
               /\ callPc' = [callPc EXCEPT ![c] = "built"]
          ELSE /\ callPc' = [callPc EXCEPT ![c] = "failed"]
               /\ UNCHANGED callRec
  /\ UNCHANGED <<heap, overwriteResponses, dest, ptr, unitVars, respVars,
                 dirVars, timedVars, seen, diffVars, temp>>

\* ReceiveFileBegin leaving the code out of the record
ReceiveFileBeginNoCode(c) ==
  /\ MayBegin(c)
  /\ \E code \in ReceiveCodes :
       /\ callArg' = [callArg EXCEPT ![c] = <<"ReceiveFile", code>>]
       /\ callRec' = [callRec EXCEPT ![c] =
            FileTransfer(getReceiveId, PlainName("Preparing to receive..."),
                         <<>>, 0, 0,
                         FileTransferStatusPreparing, "")]
  /\ callPc' = [callPc EXCEPT ![c] = "built"]
  /\ UNCHANGED <<heap, overwriteResponses, dest, ptr, unitVars, respVars,
                 dirVars, timedVars, seen, diffVars, temp>>

\* ReceiveFile, up to the evaluation of a.getReceiveId()
ReceiveFileBegin(c) ==
  /\ MayBegin(c)
  /\ \E code \in ReceiveCodes :
       /\ callArg' = [callArg EXCEPT ![c] = <<"ReceiveFile", code>>]
       /\ callRec' = [callRec EXCEPT ![c] =
            FileTransfer(getReceiveId, PlainName("Preparing to receive..."),
                         <<>>, 0, 0,
                         FileTransferStatusPreparing, code)]
  /\ callPc' = [callPc EXCEPT ![c] = "built"]
  /\ UNCHANGED <<heap, overwriteResponses, dest, ptr, unitVars, respVars,
                 dirVars, timedVars, seen, diffVars, temp>>

\* Register writing back a registry read before the lock was taken: the
\* records inserted meanwhile are lost
RegisterLosesOthers(c) ==
  /\ callPc[c] = "built"
  /\ heap' = Append(heap, <<callRec[c]>>)
  /\ callPc' = [callPc EXCEPT ![c] = "registered"]
  /\ UNCHANGED <<overwriteResponses, dest, callRec, ptr, unitVars, respVars,
                 dirVars, timedVars, callArg, seen, diffVars, temp>>

\* a.Lock(); a.transfers = append(...); a.Unlock()
Register(c) ==
  /\ callPc[c] = "built"
  /\ heap' = Append(heap, Prepend(callRec[c], transfers))
  /\ callPc' = [callPc EXCEPT ![c] = "registered"]
  /\ UNCHANGED <<overwriteResponses, dest, callRec, ptr, unitVars, respVars,
                 dirVars, timedVars, callArg, seen, diffVars, temp>>

\* go a.performSend(&a.transfers[0], ...) / go a.performReceive(...); return
Launch(c) ==
  /\ callPc[c] = "registered"
  /\ ptr' = [ptr EXCEPT ![c] = Len(heap)]
  /\ pc' = [pc EXCEPT ![c] =
       IF callRec[c].ID[1] = "send" THEN "s_start" ELSE "r_start"]
  /\ callPc' = [callPc EXCEPT ![c] = "returned"]
  /\ UNCHANGED <<heap, overwriteResponses, dest, callRec, batch, idx,
                 fileNames, totalSize, got, notes, prompts, respVars, dirVars,
                 timedVars, callArg, seen, diffVars, temp>>

\* ------------------------------------------------------ execution units
\* runtime.EventsEmit(a.ctx, TransferEventUpdated, transfer): the payload is
\* the record the pointer designates at the moment of the call
EmitPcs == {"s_e1", "s_e2", "r_e1", "t_e2", "e_err", "e_done"}

AfterEmit(p) ==
  CASE p = "s_e1" -> "s_prep"
    [] p = "s_e2" -> "s_send"
    [] p = "r_e1" -> "r_setup"
    [] p = "t_e2" -> "t_spawn"
    [] p = "e_err" -> "done"
    [] p = "e_done" -> "done"

\* when the unit returns after the emit, the deferred os.Chdir(currentDir)
\* runs and the locals of the unit are gone
EventsEmitUpdated(c) ==
  /\ pc[c] \in EmitPcs
  /\ notes' = [notes EXCEPT ![c] = Append(@, Deref(c))]
  /\ pc' = [pc EXCEPT ![c] = AfterEmit(pc[c])]
  /\ IF AfterEmit(pc[c]) = "done"
     THEN /\ batch' = [batch EXCEPT ![c] = <<>>]
          /\ idx' = [idx EXCEPT ![c] = 0]
          /\ fileNames' = [fileNames EXCEPT ![c] = <<>>]
          /\ totalSize' = [totalSize EXCEPT ![c] = 0]
          /\ got' = [got EXCEPT ![c] = <<>>]
          /\ cwd' = IF currentDir[c] # NoDir THEN currentDir[c] ELSE cwd
          /\ currentDir' = [currentDir EXCEPT ![c] = NoDir]
     ELSE UNCHANGED <<batch, idx, fileNames, totalSize, got, dirVars>>
  /\ UNCHANGED <<heap, overwriteResponses, dest, callVars, prompts, respVars,
                 timedVars, seen, diffVars, temp>>

\* transfer.Status = FileTransferStatusError, the emit follows
FailUnit(c) ==
  /\ heap' = Store(c, [Deref(c) EXCEPT !.Status = FileTransferStatusError])
  /\ pc' = [pc EXCEPT ![c] = "e_err"]

\* performSend: transfer.Code = ...; transfer.Status = waiting
SendSetWaiting(c) ==
  /\ pc[c] = "s_start"
  /\ \E code \in RandomNames :
       heap' = Store(c, [Deref(c) EXCEPT !.Code = code,
                                         !.Status = FileTransferStatusWaiting])
  /\ pc' = [pc EXCEPT ![c] = "s_e1"]
  /\ UNCHANGED <<overwriteResponses, dest, callVars, batch, idx, fileNames,
                 totalSize, got, notes, prompts, respVars, dirVars, timedVars,
                 seen, diffVars, temp>>

\* performSend: croc.New and croc.GetFilesInfo (either may fail), then
\* transfer.Files = fileNames; transfer.Progress = 0
SendPrepare(c) ==
  /\ pc[c] = "s_prep"
  /\ \/ FailUnit(c)
     \/ /\ heap' = Store(c, [Deref(c) EXCEPT !.Files = callRec[c].Files,
                                             !.Progress = 0])
        /\ pc' = [pc EXCEPT ![c] = "s_e2"]
  /\ UNCHANGED <<overwriteResponses, dest, callVars, batch, idx, fileNames,
                 totalSize, got, notes, prompts, respVars, dirVars, timedVars,
                 seen, diffVars, temp>>

\* crocClient.Send returning only once the operator has answered a prompt
SendReturnsAwaitsOperator(c) ==
  /\ pc[c] = "s_send"
  /\ callRec[c].ID \in DOMAIN overwriteResponses
  /\ \/ FailUnit(c)
     \/ /\ heap' = Store(c, [Deref(c) EXCEPT
                               !.Status = FileTransferStatusCompleted,
                               !.Progress = 100])
        /\ pc' = [pc EXCEPT ![c] = "e_done"]
  /\ UNCHANGED <<overwriteResponses, dest, callVars, batch, idx, fileNames,
                 totalSize, got, notes, prompts, respVars, dirVars, timedVars,
                 seen, diffVars, temp>>

\* performSend: crocClient.Send returns
SendReturns(c) ==
  /\ pc[c] = "s_send"
  /\ \/ FailUnit(c)
     \/ /\ heap' = Store(c, [Deref(c) EXCEPT
                               !.Status = FileTransferStatusCompleted,
                               !.Progress = 100])
        /\ pc' = [pc EXCEPT ![c] = "e_done"]
  /\ UNCHANGED <<overwriteResponses, dest, callVars, batch, idx, fileNames,
                 totalSize, got, notes, prompts, respVars, dirVars, timedVars,
                 seen, diffVars, temp>>

\* performReceive: transfer.Status = receiving; transfer.Name = "Receiving..."
ReceiveSetReceiving(c) ==
  /\ pc[c] = "r_start"
  /\ heap' = Store(c, [Deref(c) EXCEPT !.Status = FileTransferStatusReceiving,
                                       !.Name = PlainName("Receiving...")])
  /\ pc' = [pc EXCEPT ![c] = "r_e1"]
  /\ UNCHANGED <<overwriteResponses, dest, callVars, batch, idx, fileNames,
                 totalSize, got, notes, prompts, respVars, dirVars, timedVars,
                 seen, diffVars, temp>>

\* ChdirDeferred without the defer: nothing restores the directory
ChdirNotDeferred(c, dir) ==
  /\ cwd' = dir
  /\ UNCHANGED currentDir

\* the unit has changed the working directory to dir and deferred the
\* restore of the one it found
ChdirDeferred(c, dir) ==
  /\ currentDir' = [currentDir EXCEPT ![c] = cwd]
  /\ cwd' = dir

\* performReceive: os.Getwd, os.Chdir(destinationPath), defer, os.MkdirTemp,
\* os.Chdir(tempDir), croc.New; each call may fail
ReceiveSetup(c) ==
  /\ pc[c] = "r_setup"
  /\ \/ /\ FailUnit(c)
        /\ UNCHANGED dirVars
     \/ /\ FailUnit(c)
        /\ ChdirDeferred(c, DestDir)
     \/ /\ FailUnit(c)
        /\ ChdirDeferred(c, TempDir(c))
     \/ /\ pc' = [pc EXCEPT ![c] = "r_recv"]
        /\ ChdirDeferred(c, TempDir(c))
        /\ UNCHANGED heap
  /\ UNCHANGED <<overwriteResponses, dest, callVars, batch, idx, fileNames,
                 totalSize, got, notes, prompts, respVars, timedVars,
                 seen, diffVars, temp>>

\* ReceiveReturns without the len(receivedFiles) == 0 test: an empty batch
\* goes through the loop
ReceiveReturnsNoLenTest(c) ==
  /\ pc[c] = "r_recv"
  /\ \/ /\ FailUnit(c)
        /\ UNCHANGED <<batch, idx>>
     \/ \E b \in Batches :
          /\ batch' = [batch EXCEPT ![c] = b]
          /\ idx' = [idx EXCEPT ![c] = 1]
          /\ pc' = [pc EXCEPT ![c] = IF Len(b) = 0 THEN "r_finish" ELSE "r_file"]
          /\ UNCHANGED heap
  /\ UNCHANGED <<overwriteResponses, dest, callVars, fileNames, totalSize,
                 got, notes, prompts, respVars, dirVars, timedVars, seen,
                 diffVars, temp>>

\* performReceive: crocClient.Receive returns, listFiles(tempDir), and the
\* len(receivedFiles) == 0 test
ReceiveReturns(c) ==
  /\ pc[c] = "r_recv"
  /\ \/ /\ FailUnit(c)
        /\ UNCHANGED <<batch, idx>>
     \/ \E b \in Batches :
          IF Len(b) = 0
          THEN /\ FailUnit(c)
               /\ UNCHANGED <<batch, idx>>
          ELSE /\ batch' = [batch EXCEPT ![c] = b]
               /\ idx' = [idx EXCEPT ![c] = 1]
               /\ pc' = [pc EXCEPT ![c] = "r_file"]
               /\ UNCHANGED heap
  /\ UNCHANGED <<overwriteResponses, dest, callVars, fileNames, totalSize,
                 got, notes, prompts, respVars, dirVars, timedVars,
                 seen, diffVars, temp>>

\* the channel made by unit c for the file at index i
Chan(c, i) == <<c, i>>

\* where the receive loop continues after the file at idx[c]
NextFilePc(c) == IF idx[c] < Len(batch[c]) THEN "r_file" ELSE "r_finish"

\* performReceive: os.Stat(destPath) and, when the file exists,
\* a.overwriteResponses[transfer.ID] = responseChan under the write lock
ReceiveCheckExisting(c) ==
  /\ pc[c] = "r_file"
  /\ IF batch[c][idx[c]] \in dest
     THEN /\ overwriteResponses' =
               MapPut(overwriteResponses, Deref(c).ID, Chan(c, idx[c]))
          /\ pc' = [pc EXCEPT ![c] = "r_prompt"]
     ELSE /\ pc' = [pc EXCEPT ![c] = "r_move"]
          /\ UNCHANGED overwriteResponses
  /\ UNCHANGED <<heap, dest, callVars, batch, idx, fileNames, totalSize, got,
                 notes, prompts, respVars, dirVars, timedVars,
                 seen, diffVars, temp>>

OverwritePrompt(id, name) == [TransferID |-> id, FileName |-> name]

\* EventsEmitOverwrite emitting the prompt a second time
EventsEmitOverwriteTwice(c) ==
  /\ pc[c] = "r_prompt"
  /\ prompts' = [prompts EXCEPT ![c] =
       Append(Append(@, OverwritePrompt(Deref(c).ID, batch[c][idx[c]])),
              OverwritePrompt(Deref(c).ID, batch[c][idx[c]]))]
  /\ pc' = [pc EXCEPT ![c] = "r_wait"]
  /\ UNCHANGED <<heap, overwriteResponses, dest, callVars, batch, idx,
                 fileNames, totalSize, got, notes, respVars, dirVars,
                 timedVars, seen, diffVars, temp>>

\* EventsEmitOverwrite going on to the move without waiting for a decision
EventsEmitOverwriteNoWait(c) ==
  /\ pc[c] = "r_prompt"
  /\ prompts' = [prompts EXCEPT ![c] =
       Append(@, OverwritePrompt(Deref(c).ID, batch[c][idx[c]]))]
  /\ pc' = [pc EXCEPT ![c] = "r_move"]
  /\ UNCHANGED <<heap, overwriteResponses, dest, callVars, batch, idx,
                 fileNames, totalSize, got, notes, respVars, dirVars,
                 timedVars, seen, diffVars, temp>>

\* performReceive: runtime.EventsEmit(a.ctx, TransferEventOverwrite, ...)
EventsEmitOverwrite(c) ==
  /\ pc[c] = "r_prompt"
  /\ prompts' = [prompts EXCEPT ![c] =
       Append(@, OverwritePrompt(Deref(c).ID, batch[c][idx[c]]))]
  /\ pc' = [pc EXCEPT ![c] = "r_wait"]
  /\ UNCHANGED <<heap, overwriteResponses, dest, callVars, batch, idx,
                 fileNames, totalSize, got, notes, respVars, dirVars,
                 timedVars, seen, diffVars, temp>>

\* ReceiveMove going on with the next file after a failed move
ReceiveMoveGoesOn(c) ==
  /\ pc[c] = "r_move"
  /\ \/ /\ heap' = Store(c, [Deref(c) EXCEPT
                                 !.Status = FileTransferStatusError])
        /\ idx' = [idx EXCEPT ![c] = @ + 1]
        /\ pc' = [pc EXCEPT ![c] = NextFilePc(c)]
        /\ UNCHANGED <<dest, fileNames, totalSize>>
     \/ /\ dest' = dest \cup {batch[c][idx[c]]}
        /\ fileNames' = [fileNames EXCEPT ![c] = Append(@, batch[c][idx[c]])]
        /\ totalSize' = [totalSize EXCEPT ![c] = @ + FileSize(batch[c][idx[c]])]
        /\ idx' = [idx EXCEPT ![c] = @ + 1]
        /\ pc' = [pc EXCEPT ![c] = NextFilePc(c)]
        /\ UNCHANGED heap
  /\ UNCHANGED <<overwriteResponses, callVars, batch, got, notes, prompts,
                 respVars, dirVars, timedVars, seen, diffVars, temp>>

\* performReceive: os.MkdirAll and os.Rename, then the two accumulators
ReceiveMove(c) ==
  /\ pc[c] = "r_move"
  /\ \/ /\ FailUnit(c)
        /\ UNCHANGED <<dest, fileNames, totalSize, idx>>
     \/ /\ dest' = dest \cup {batch[c][idx[c]]}
        /\ fileNames' = [fileNames EXCEPT ![c] = Append(@, batch[c][idx[c]])]
        /\ totalSize' = [totalSize EXCEPT ![c] = @ + FileSize(batch[c][idx[c]])]
        /\ idx' = [idx EXCEPT ![c] = @ + 1]
        /\ pc' = [pc EXCEPT ![c] = NextFilePc(c)]
        /\ UNCHANGED heap
  /\ UNCHANGED <<overwriteResponses, callVars, batch, got, notes, prompts,
                 respVars, dirVars, timedVars, seen, diffVars, temp>>

\* FinalName counting every name, the first included, as "more"
FinalNameCountsAll(names) ==
  IF Len(names) > 1 THEN <<names[1], "and more", Len(names)>>
  ELSE IF Len(names) > 0 THEN PlainName(names[1])
  ELSE PlainName("File received")

\* the name given to a finished receive; "%s and %d more" is kept as the
\* triple of its format and its two arguments
FinalName(names) ==
  IF Len(names) > 1 THEN <<names[1], "and more", Len(names) - 1>>
  ELSE IF Len(names) > 0 THEN PlainName(names[1])
  ELSE PlainName("File received")

\* ReceiveFinish treating a receive that moved nothing as a failure
ReceiveFinishErrorWhenEmpty(c) ==
  /\ pc[c] = "r_finish"
  /\ heap' = Store(c, [Deref(c) EXCEPT
                         !.Name = FinalName(fileNames[c]),
                         !.Files = fileNames[c],
                         !.Size = totalSize[c],
                         !.Status = IF fileNames[c] = <<>>
                                    THEN FileTransferStatusError
                                    ELSE FileTransferStatusCompleted,
                         !.Progress = 100])
  /\ pc' = [pc EXCEPT ![c] = "e_done"]
  /\ UNCHANGED <<overwriteResponses, dest, callVars, batch, idx, fileNames,
                 totalSize, got, notes, prompts, respVars, dirVars, timedVars,
                 seen, diffVars, temp>>

\* performReceive: the final assignments
ReceiveFinish(c) ==
  /\ pc[c] = "r_finish"
  /\ heap' = Store(c, [Deref(c) EXCEPT
                         !.Name = FinalName(fileNames[c]),
                         !.Files = fileNames[c],
                         !.Size = totalSize[c],
                         !.Status = FileTransferStatusCompleted,
                         !.Progress = 100])
  /\ pc' = [pc EXCEPT ![c] = "e_done"]
  /\ UNCHANGED <<overwriteResponses, dest, callVars, batch, idx, fileNames,
                 totalSize, got, notes, prompts, respVars, dirVars, timedVars,
                 seen, diffVars, temp>>

\* --------------------------------------------------- RespondToOverwrite
\* responders are interchangeable: call r + 1 is never begun before call r
MayRespond(r) ==
  rPc[r] = "idle" /\ (IF r = 1 THEN TRUE ELSE rPc[r - 1] # "idle")

\* RespondLookup without the `if ok` test: the send is attempted on whatever
\* the lookup produced
RespondLookupNoOkTest(r, transferID, response) ==
  /\ rId' = [rId EXCEPT ![r] = transferID]
  /\ rResp' = [rResp EXCEPT ![r] = response]
  /\ rChan' = [rChan EXCEPT ![r] =
       IF transferID \in DOMAIN overwriteResponses
       THEN overwriteResponses[transferID] ELSE NoChan]
  /\ rPc' = [rPc EXCEPT ![r] = "send"]
  /\ UNCHANGED <<heap, overwriteResponses, dest, callVars, unitVars, dirVars,
                 timedVars, seen, diffVars, temp>>

\* RespondToOverwrite: the lookup under the read lock and the `if ok` test
RespondLookup(r, transferID, response) ==
  /\ IF transferID \in DOMAIN overwriteResponses
     THEN /\ rId' = [rId EXCEPT ![r] = transferID]
          /\ rResp' = [rResp EXCEPT ![r] = response]
          /\ rChan' = [rChan EXCEPT ![r] = overwriteResponses[transferID]]
          /\ rPc' = [rPc EXCEPT ![r] = "send"]
     ELSE /\ rPc' = [rPc EXCEPT ![r] = "done"]
          /\ UNCHANGED <<rId, rResp, rChan>>
  /\ UNCHANGED <<heap, overwriteResponses, dest, callVars, unitVars, dirVars,
                 timedVars, seen, diffVars, temp>>

RespondToOverwriteBegin(r) ==
  /\ MayRespond(r)
  /\ \E transferID \in RespondIds, response \in Decisions :
       RespondLookup(r, transferID, response)

\* AfterDecision treating every decision as "yes"
AfterDecisionAlwaysMoves(c, response) == "r_move"

\* the receive loop after the unit took `response` from its channel
AfterDecision(c, response) ==
  IF response = "yes" THEN "r_move" ELSE NextFilePc(c)

\* responseChan <- response meets response := <-responseChan: the channel is
\* unbuffered, so the send completes only with a unit receiving on it; the
\* responder's response and responseChan are not read again
Rendezvous(r, c) ==
  /\ rPc[r] = "send"
  /\ pc[c] = "r_wait"
  /\ rChan[r] = Chan(c, idx[c])
  /\ got' = [got EXCEPT ![c] = Append(@, rResp[r])]
  /\ pc' = [pc EXCEPT ![c] = AfterDecision(c, rResp[r])]
  /\ idx' = [idx EXCEPT ![c] = IF rResp[r] = "yes" THEN @ ELSE @ + 1]
  /\ rPc' = [rPc EXCEPT ![r] = "delete"]
  /\ rResp' = [rResp EXCEPT ![r] = ""]
  /\ rChan' = [rChan EXCEPT ![r] = NoChan]
  /\ UNCHANGED <<heap, overwriteResponses, dest, callVars, batch, fileNames,
                 totalSize, notes, prompts, rId, dirVars, timedVars,
                 seen, diffVars, temp>>

\* RespondDelete without the delete: the slot stays in the map
RespondDeleteKeepsSlot(r) ==
  /\ rPc[r] = "delete"
  /\ rPc' = [rPc EXCEPT ![r] = "done"]
  /\ rId' = [rId EXCEPT ![r] = NoId]
  /\ UNCHANGED <<heap, overwriteResponses, dest, callVars, unitVars, rResp,
                 rChan, dirVars, timedVars, seen, diffVars, temp>>

\* RespondToOverwrite: delete(a.overwriteResponses, transferID), return
RespondDelete(r) ==
  /\ rPc[r] = "delete"
  /\ overwriteResponses' = MapDelete(overwriteResponses, rId[r])
  /\ rPc' = [rPc EXCEPT ![r] = "done"]
  /\ rId' = [rId EXCEPT ![r] = NoId]
  /\ UNCHANGED <<heap, dest, callVars, unitVars, rResp, rChan, dirVars,
                 timedVars, seen, diffVars, temp>>

\* ------------------------------------------------------------------ spec
CallStep ==
  \E c \in Calls :
    \/ SendFileBegin(c)
    \/ ReceiveFileBegin(c)
    \/ Register(c)
    \/ Launch(c)

UnitStep ==
  \E c \in Calls :
    \/ EventsEmitUpdated(c)
    \/ SendSetWaiting(c)
    \/ SendPrepare(c)
    \/ SendReturns(c)
    \/ ReceiveSetReceiving(c)
    \/ ReceiveSetup(c)
    \/ ReceiveReturns(c)
    \/ ReceiveCheckExisting(c)
    \/ EventsEmitOverwrite(c)
    \/ ReceiveMove(c)
    \/ ReceiveFinish(c)

RespondStep ==
  \E r \in Responders :
    \/ RespondToOverwriteBegin(r)
    \/ RespondDelete(r)
    \/ \E c \in Calls : Rendezvous(r, c)

Next == CallStep \/ UnitStep \/ RespondStep

Spec == Init /\ [][Next]_vars

\* ------------------------------------------- performReceive with a timeout
\* src/app.go has the earlier performReceive: it receives in the destination
\* directory itself and waits for the collaborator at most 30 seconds.

\* os.Getwd, os.Chdir(destinationPath), defer, croc.New (each may fail), then
\* transfer.Progress = 50
ReceiveSetupInPlace(c) ==
  /\ pc[c] = "r_setup"
  /\ \/ /\ FailUnit(c)
        /\ UNCHANGED dirVars
     \/ /\ FailUnit(c)
        /\ ChdirDeferred(c, DestDir)
     \/ /\ heap' = Store(c, [Deref(c) EXCEPT !.Progress = 50])
        /\ pc' = [pc EXCEPT ![c] = "t_e2"]
        /\ ChdirDeferred(c, DestDir)
  /\ UNCHANGED <<overwriteResponses, dest, callVars, batch, idx, fileNames,
                 totalSize, got, notes, prompts, respVars, timedVars,
                 seen, diffVars, temp>>

\* errCh := make(chan error, 1); go func() { errCh <- crocClient.Receive() }()
ReceiveSpawn(c) ==
  /\ pc[c] = "t_spawn"
  /\ gPc' = [gPc EXCEPT ![c] = "run"]
  /\ pc' = [pc EXCEPT ![c] = "t_select"]
  /\ UNCHANGED <<heap, overwriteResponses, dest, callVars, batch, idx,
                 fileNames, totalSize, got, notes, prompts, respVars, dirVars,
                 errCh, written, timedOut, seen, diffVars, temp>>

\* crocClient.Receive creates a file: croc opens it by its relative name
\* (Overwrite: true), so it lands in the working directory of that moment
CollaboratorWrites(c) ==
  /\ gPc[c] = "run"
  /\ Cardinality(written[c]) < MaxFiles
  /\ \E name \in Names :
       /\ \A w \in written[c] : w[2] # name
       /\ written' = [written EXCEPT ![c] = @ \cup {<<cwd, name>>}]
       /\ dest' = IF cwd = DestDir THEN dest \cup {name} ELSE dest
  /\ UNCHANGED <<heap, overwriteResponses, callVars, unitVars, respVars,
                 dirVars, gPc, errCh, timedOut, seen, diffVars, temp>>

\* errCh made without a buffer: the send needs the unit in its select
CollaboratorReturnsUnbuffered(c) ==
  /\ gPc[c] = "run"
  /\ pc[c] = "t_select"
  /\ \E result \in {"nil", "err"} :
       errCh' = [errCh EXCEPT ![c] = result]
  /\ gPc' = [gPc EXCEPT ![c] = "exit"]
  /\ UNCHANGED <<heap, overwriteResponses, dest, callVars, unitVars, respVars,
                 dirVars, written, timedOut, seen, diffVars, temp>>

\* crocClient.Receive returns and its result is put into errCh: a send on a
\* channel of capacity 1 completes when the buffer is empty, whether or not
\* the unit still listens
CollaboratorReturns(c) ==
  /\ gPc[c] = "run"
  /\ errCh[c] = ""
  /\ \E result \in {"nil", "err"} :
       errCh' = [errCh EXCEPT ![c] = result]
  /\ gPc' = [gPc EXCEPT ![c] = "exit"]
  /\ UNCHANGED <<heap, overwriteResponses, dest, callVars, unitVars, respVars,
                 dirVars, written, timedOut, seen, diffVars, temp>>

\* the select: a result taken from errCh, or the time.After(30 s) case; when
\* both are ready either may be taken
ReceiveSelect(c) ==
  /\ pc[c] = "t_select"
  /\ \/ /\ errCh[c] = "err"
        /\ errCh' = [errCh EXCEPT ![c] = ""]
        /\ FailUnit(c)
        /\ UNCHANGED timedOut
     \/ /\ errCh[c] = "nil"
        /\ errCh' = [errCh EXCEPT ![c] = ""]
        /\ heap' = Store(c, [Deref(c) EXCEPT
                               !.Name = PlainName("Completed"),
                               !.Files = <<"File received successfully">>,
                               !.Status = FileTransferStatusCompleted,
                               !.Progress = 100])
        /\ pc' = [pc EXCEPT ![c] = "e_done"]
        /\ UNCHANGED timedOut
     \/ /\ timedOut' = [timedOut EXCEPT ![c] = TRUE]
        /\ FailUnit(c)
        /\ UNCHANGED errCh
  /\ UNCHANGED <<overwriteResponses, dest, callVars, batch, idx, fileNames,
                 totalSize, got, notes, prompts, respVars, dirVars, gPc,
                 written, seen, diffVars, temp>>

\* the steps performSend and the head of performReceive have in both versions
SharedUnitStep ==
  \E c \in Calls :
    \/ EventsEmitUpdated(c)
    \/ SendSetWaiting(c)
    \/ SendPrepare(c)
    \/ SendReturns(c)
    \/ ReceiveSetReceiving(c)

TimeoutStep ==
  \E c \in Calls :
    \/ ReceiveSetupInPlace(c)
    \/ ReceiveSpawn(c)
    \/ CollaboratorWrites(c)
    \/ CollaboratorReturns(c)
    \/ ReceiveSelect(c)

NextTimeout == CallStep \/ SharedUnitStep \/ TimeoutStep

SpecTimeout == Init /\ [][NextTimeout]_vars

\* ---------------------------------------------------------------- fairness
\* The steps a unit takes by itself.  A goroutine that can run is run, so
\* these are taken when they stay possible; the return of a blocking
\* collaborator call (crocClient.Send, crocClient.Receive) and the arrival
\* of a decision are not among them: the peer and the operator owe nothing.
UnitOwnStep(c) ==
  \/ EventsEmitUpdated(c)
  \/ SendSetWaiting(c)
  \/ SendPrepare(c)
  \/ ReceiveSetReceiving(c)
  \/ ReceiveSetup(c)
  \/ ReceiveCheckExisting(c)
  \/ EventsEmitOverwrite(c)
  \/ ReceiveMove(c)
  \/ ReceiveFinish(c)

SpecFair == Spec /\ \A c \in Calls : WF_vars(UnitOwnStep(c))

\* the same for the performReceive with a timeout: the timer of the select
\* fires by itself
UnitOwnStepTimeout(c) ==
  \/ EventsEmitUpdated(c)
  \/ SendSetWaiting(c)
  \/ SendPrepare(c)
  \/ ReceiveSetReceiving(c)
  \/ ReceiveSetupInPlace(c)
  \/ ReceiveSpawn(c)
  \/ ReceiveSelect(c)

SpecTimeoutFair ==
  SpecTimeout /\ \A c \in Calls : WF_vars(UnitOwnStepTimeout(c))

\* --------------------------------------------------- receives kept apart
\* every ReceiveFile call made so far has returned and its unit has returned
ReceiveIdle ==
  \A d \in Calls :
    callRec[d].ID[1] = "receive" => (callPc[d] = "returned" /\ pc[d] = "done")

\* The caller starts a receive only when no other receive is under way; the
\* unit it launches runs either version of performReceive.
CallStepApart ==
  \E c \in Calls :
    \/ SendFileBegin(c)
    \/ ReceiveIdle /\ ReceiveFileBegin(c)
    \/ Register(c)
    \/ Launch(c)

NextApart == CallStepApart \/ UnitStep \/ TimeoutStep \/ RespondStep

SpecApart == Init /\ [][NextApart]_vars

\* ------------------------------------------------- calls one at a time
\* the k-th of the transfers made before the first call: sends and receives
\* of "a" in turn, each registered after the one before had completed
PriorTransfer(k) ==
  IF k % 2 = 1
  THEN FileTransfer(Sprintf("send", k - 1), PlainName("a"), <<"a">>,
                    FileSize("a"), 100, FileTransferStatusCompleted, "rnd")
  ELSE FileTransfer(Sprintf("receive", k - 1), FinalName(<<"a">>), <<"a">>,
                    FileSize("a"), 100, FileTransferStatusCompleted, "code")

\* a.transfers after n such transfers: the most recent one first
PriorRegistry(n) == [i \in 1..n |-> PriorTransfer(n - i + 1)]

InitSequential ==
  /\ heap \in { IF n = 0 THEN <<>> ELSE <<PriorRegistry(n)>> :
                   n \in 0..MaxPrior }
  /\ InitRest
  /\ InitNoDiff

\* every call made so far has returned
CallsReturned ==
  \A d \in Calls : callPc[d] \in {"idle", "failed", "returned"}

\* The caller makes its calls one after the other, each after the previous
\* one returned, and answers no prompt; the units run concurrently.
CallStepSequential ==
  \E c \in Calls :
    \/ CallsReturned /\ SendFileBegin(c)
    \/ CallsReturned /\ ReceiveFileBegin(c)
    \/ Register(c)
    \/ Launch(c)

NextSequential == CallStepSequential \/ UnitStep

SpecSequential == InitSequential /\ [][NextSequential]_vars

\* ------------------------------------------- the return of a call, apart
\* `go a.performSend(&a.transfers[0], ...)` / `go a.performReceive(...)`:
\* the unit exists and may run before the call has returned
LaunchGo(c) ==
  /\ callPc[c] = "registered"
  /\ ptr' = [ptr EXCEPT ![c] = Len(heap)]
  /\ pc' = [pc EXCEPT ![c] =
       IF callRec[c].ID[1] = "send" THEN "s_start" ELSE "r_start"]
  /\ callPc' = [callPc EXCEPT ![c] = "launched"]
  /\ UNCHANGED <<heap, overwriteResponses, dest, callRec, callArg, batch, idx,
                 fileNames, totalSize, got, notes, prompts, respVars, dirVars,
                 timedVars, seen, diffVars, temp>>

\* return transfer.ID, nil
ReturnId(c) ==
  /\ callPc[c] = "launched"
  /\ callPc' = [callPc EXCEPT ![c] = "returned"]
  /\ UNCHANGED <<heap, overwriteResponses, dest, callRec, callArg, ptr,
                 unitVars, respVars, dirVars, timedVars, seen, diffVars, temp>>

\* calls one after the other, the go statement and the return as two steps
CallStepReturn ==
  \E c \in Calls :
    \/ CallsReturned /\ SendFileBegin(c)
    \/ CallsReturned /\ ReceiveFileBegin(c)
    \/ Register(c)
    \/ LaunchGo(c)
    \/ ReturnId(c)

NextReturn == CallStepReturn \/ UnitStep

SpecReturn == InitSequential /\ [][NextReturn]_vars

\* ------------------------------------------------------------ observers
\* GetTransfers returns the slice a.transfers itself: the caller reads the
\* records after the read lock is released, and the units write them
\* without any lock.  A Status is a string header of two words; a read
\* that overlaps a write of it may take the pointer of one value and the
\* length of the other, which is none of the six constants.
TornStatus == "torn"

\* the positions at which the next step of a unit may assign transfer.Status
StatusWritePcs ==
  { "s_start", "s_prep", "s_send", "r_start", "r_setup", "r_recv", "r_move",
    "r_finish", "t_select" }

\* a unit is about to write the Status of record j of a.transfers
WriteOverlaps(j) ==
  /\ j = 1
  /\ \E c \in Calls : ptr[c] = Len(heap) /\ pc[c] \in StatusWritePcs

\* an observer calls GetTransfers and reads the status of every record: the
\* value stored, or a torn one where a write overlaps the read
GetTransfersRead ==
  /\ \E torn \in SUBSET { j \in 1..Len(transfers) : WriteOverlaps(j) } :
       seen' = [j \in 1..Len(transfers) |->
                  IF j \in torn THEN TornStatus ELSE transfers[j].Status]
  /\ UNCHANGED <<heap, overwriteResponses, dest, callVars, unitVars, respVars,
                 dirVars, timedVars, diffVars, temp>>

NextObserver == CallStepSequential \/ UnitStep \/ GetTransfersRead

SpecObserver == InitSequential /\ [][NextObserver]_vars

\* The operator answers prompts: RespondToOverwrite is called for an id only
\* while a unit is blocked on a prompt carrying that id and no earlier call
\* for the id is still on its way to the unit.
PromptOutstanding(transferID) ==
  /\ \E c \in Calls : pc[c] = "r_wait" /\ Deref(c).ID = transferID
  /\ \A r \in Responders : ~(rPc[r] = "send" /\ rId[r] = transferID)

OperatorResponds(r) ==
  /\ MayRespond(r)
  /\ \E transferID \in RespondIds, response \in Decisions :
       /\ PromptOutstanding(transferID)
       /\ RespondLookup(r, transferID, response)

OperatorStep ==
  \E r \in Responders :
    \/ OperatorResponds(r)
    \/ RespondDelete(r)
    \/ \E c \in Calls : Rendezvous(r, c)

NextOperator == CallStep \/ UnitStep \/ OperatorStep

SpecOperator == Init /\ [][NextOperator]_vars

\* ------------------------------------------------------------ getFileDiff
\* os.ReadFile(name): the bytes of the file, or an error
ReadFile(name) ==
  [data |-> files[name].data, err |-> ~files[name].ok]

\* filepath.Base of a path that names a file: its last element
Base(path) == path[Len(path)]

\* a text is the sequence of its lines (the pieces between "\n")
IdenticalText == << "Files are identical." >>

getFileDiffSameBaseTwice(file1, file2) ==
  LET f1 == ReadFile(file1)
      f2 == ReadFile(file2)
  IN  IF f1.err THEN [text |-> NoText, err |-> TRUE]
      ELSE IF f2.err THEN [text |-> NoText, err |-> TRUE]
      ELSE IF f1.data = f2.data THEN [text |-> IdenticalText, err |-> FALSE]
      ELSE [text |-> << "--- a/" \o Base(file1),
                        "+++ b/" \o Base(file1),
                        "File content differs." >>,
            err |-> FALSE]

getFileDiff(file1, file2) ==
  LET f1 == ReadFile(file1)
      f2 == ReadFile(file2)
  IN  IF f1.err THEN [text |-> NoText, err |-> TRUE]
      ELSE IF f2.err THEN [text |-> NoText, err |-> TRUE]
      ELSE IF f1.data = f2.data THEN [text |-> IdenticalText, err |-> FALSE]
      ELSE [text |-> << "--- a/" \o Base(file1),
                        "+++ b/" \o Base(file2),
                        "File content differs." >>,
            err |-> FALSE]

GetFileDiffCall ==
  /\ \E file1 \in DiffPaths, file2 \in DiffPaths :
       /\ diffArgs' = <<file1, file2>>
       /\ diffOut' = getFileDiff(file1, file2)
  /\ UNCHANGED <<heap, overwriteResponses, dest, callVars, unitVars, respVars,
                 dirVars, timedVars, seen, files, temp>>

InitDiff ==
  /\ heap = <<>>
  /\ InitRest
  /\ files \in FileSystems
  /\ NoDiffCall

NextDiff == GetFileDiffCall

SpecDiff == InitDiff /\ [][NextDiff]_vars

\* ------------------------------------- the temporary area of a receive
\* part_002 receives in a directory made by os.MkdirTemp and moves the
\* files to the destination.  The steps below follow the files: what the
\* collaborator writes goes to the working directory of the process, the
\* unit lists its own temporary directory, and the deferred calls run
\* last registered first.

\* whether the operating system lets a process remove the directory it is
\* working in: a POSIX system does, Windows does not
RemovesWorkingDir == BOOLEAN

\* the directory exists
DirExists(dir) ==
  IF \E d \in Calls : dir = TempDir(d)
  THEN \E d \in Calls : dir = TempDir(d) /\ temp[d].there
  ELSE TRUE

\* what the collaborator may write in one receive: up to MaxFiles files,
\* possibly none
Materializations == { m \in SUBSET TempPaths : Cardinality(m) <= MaxFiles }

\* the orders in which a range over the map returned by listFiles may
\* yield the files
Orderings(paths) ==
  { s \in [1..Cardinality(paths) -> paths] :
      \A i, j \in 1..Cardinality(paths) : i # j => s[i] # s[j] }

\* fileInfo.Name() of each listed file
BaseNames(s) == [i \in 1..Len(s) |-> s[i][2]]

\* performReceive: os.Getwd, os.Chdir(destinationPath), defer, os.MkdirTemp,
\* defer os.RemoveAll, os.Chdir(tempDir), croc.New; each call may fail
ReceiveSetupTemp(c) ==
  /\ pc[c] = "r_setup"
  /\ \/ /\ FailUnit(c)
        /\ UNCHANGED <<dirVars, temp>>
     \/ /\ FailUnit(c)
        /\ ChdirDeferred(c, DestDir)
        /\ UNCHANGED temp
     \/ /\ FailUnit(c)
        /\ ChdirDeferred(c, DestDir)
        /\ temp' = [temp EXCEPT ![c] = EmptyTemp]
     \/ /\ FailUnit(c)
        /\ ChdirDeferred(c, TempDir(c))
        /\ temp' = [temp EXCEPT ![c] = EmptyTemp]
     \/ /\ pc' = [pc EXCEPT ![c] = "r_recv"]
        /\ ChdirDeferred(c, TempDir(c))
        /\ temp' = [temp EXCEPT ![c] = EmptyTemp]
        /\ UNCHANGED heap
  /\ UNCHANGED <<overwriteResponses, dest, callVars, batch, idx, fileNames,
                 totalSize, got, notes, prompts, respVars, timedVars, seen,
                 diffVars>>

\* the temporary directories after the collaborator wrote the files m in
\* the working directory
Landed(m) ==
  [d \in Calls |->
     IF cwd = TempDir(d) /\ temp[d].there
     THEN [temp[d] EXCEPT !.files = @ \cup m]
     ELSE temp[d]]

\* performReceive: crocClient.Receive returns, listFiles(tempDir), the range
\* over the map and the len(receivedFiles) == 0 test
ReceiveReturnsWalk(c) ==
  /\ pc[c] = "r_recv"
  /\ \/ /\ FailUnit(c)
        /\ UNCHANGED <<batch, idx, temp, dest>>
     \/ \E m \in Materializations :
          /\ temp' = Landed(m)
          /\ dest' = IF cwd = DestDir
                     THEN dest \cup { p[2] : p \in { q \in m : q[1] = "" } }
                     ELSE dest
          /\ IF Landed(m)[c].there /\ Landed(m)[c].files # {}
             THEN /\ \E s \in Orderings(Landed(m)[c].files) :
                       batch' = [batch EXCEPT ![c] = BaseNames(s)]
                  /\ idx' = [idx EXCEPT ![c] = 1]
                  /\ pc' = [pc EXCEPT ![c] = "r_file"]
                  /\ UNCHANGED heap
             ELSE /\ FailUnit(c)
                  /\ UNCHANGED <<batch, idx>>
  /\ UNCHANGED <<overwriteResponses, callVars, fileNames, totalSize, got,
                 notes, prompts, respVars, dirVars, timedVars, seen, diffVars>>

\* sourcePath := filepath.Join(tempDir, fileInfo.Name())
SourcePath(name) == <<"", name>>

\* performReceive: os.MkdirAll and os.Rename(sourcePath, destPath), then the
\* two accumulators; the rename fails when nothing is at sourcePath
ReceiveMoveFromTemp(c) ==
  /\ pc[c] = "r_move"
  /\ LET name == batch[c][idx[c]] IN
       IF SourcePath(name) \in temp[c].files
       THEN \/ /\ FailUnit(c)
               /\ UNCHANGED <<dest, fileNames, totalSize, idx, temp>>
            \/ /\ temp' = [temp EXCEPT ![c].files = @ \ {SourcePath(name)}]
               /\ dest' = dest \cup {name}
               /\ fileNames' = [fileNames EXCEPT ![c] = Append(@, name)]
               /\ totalSize' = [totalSize EXCEPT ![c] = @ + FileSize(name)]
               /\ idx' = [idx EXCEPT ![c] = @ + 1]
               /\ pc' = [pc EXCEPT ![c] = NextFilePc(c)]
               /\ UNCHANGED heap
       ELSE /\ FailUnit(c)
            /\ UNCHANGED <<dest, fileNames, totalSize, idx, temp>>
  /\ UNCHANGED <<overwriteResponses, callVars, batch, got, notes, prompts,
                 respVars, dirVars, timedVars, seen, diffVars>>

\* the last runtime.EventsEmit of performReceive; the deferred calls follow
EventsEmitLast(c) ==
  /\ pc[c] \in {"e_err", "e_done"}
  /\ notes' = [notes EXCEPT ![c] = Append(@, Deref(c))]
  /\ pc' = [pc EXCEPT ![c] = "d_rm"]
  /\ UNCHANGED <<heap, overwriteResponses, dest, callVars, batch, idx,
                 fileNames, totalSize, got, prompts, respVars, dirVars,
                 timedVars, seen, diffVars, temp>>

\* defer os.RemoveAll(tempDir), registered last and run first: the working
\* directory is still the one the unit changed to
DeferredRemoveAll(c) ==
  /\ pc[c] = "d_rm"
  /\ IF temp[c].made
     THEN \E removes \in RemovesWorkingDir :
            temp' = [temp EXCEPT ![c] =
              [made |-> TRUE,
               there |-> IF cwd = TempDir(c) THEN ~removes ELSE FALSE,
               files |-> {}]]
     ELSE UNCHANGED temp
  /\ pc' = [pc EXCEPT ![c] = "d_cd"]
  /\ UNCHANGED <<heap, overwriteResponses, dest, callVars, batch, idx,
                 fileNames, totalSize, got, notes, prompts, respVars, dirVars,
                 timedVars, seen, diffVars>>

\* defer func() { os.Chdir(currentDir) }(), whose error is dropped; the unit
\* returns and its locals are gone
DeferredChdir(c) ==
  /\ pc[c] = "d_cd"
  /\ cwd' = IF currentDir[c] # NoDir /\ DirExists(currentDir[c])
            THEN currentDir[c] ELSE cwd
  /\ currentDir' = [currentDir EXCEPT ![c] = NoDir]
  /\ temp' = [temp EXCEPT ![c].made = FALSE]
  /\ batch' = [batch EXCEPT ![c] = <<>>]
  /\ idx' = [idx EXCEPT ![c] = 0]
  /\ fileNames' = [fileNames EXCEPT ![c] = <<>>]
  /\ totalSize' = [totalSize EXCEPT ![c] = 0]
  /\ got' = [got EXCEPT ![c] = <<>>]
  /\ pc' = [pc EXCEPT ![c] = "done"]
  /\ UNCHANGED <<heap, overwriteResponses, dest, callVars, notes, prompts,
                 respVars, timedVars, seen, diffVars>>

\* ReceiveFile calls made one after the other; no RespondToOverwrite call
CallStepReceive ==
  \E c \in Calls :
    \/ CallsReturned /\ ReceiveFileBegin(c)
    \/ Register(c)
    \/ Launch(c)

UnitStepTemp ==
  \E c \in Calls :
    \/ pc[c] = "r_e1" /\ EventsEmitUpdated(c)
    \/ ReceiveSetReceiving(c)
    \/ ReceiveSetupTemp(c)
    \/ ReceiveReturnsWalk(c)
    \/ ReceiveCheckExisting(c)
    \/ EventsEmitOverwrite(c)
    \/ ReceiveMoveFromTemp(c)
    \/ ReceiveFinish(c)
    \/ EventsEmitLast(c)
    \/ DeferredRemoveAll(c)
    \/ DeferredChdir(c)

NextTemp == CallStepReceive \/ UnitStepTemp

SpecTemp == Init /\ [][NextTemp]_vars

\* ------------------------------------------------- sends that come to an end
\* the steps of performSend, the returns of its collaborator calls included
SendPcs == {"s_start", "s_e1", "s_prep", "s_e2", "s_send"}

PerformSendStep(c) ==
  \/ callArg[c][1] = "SendFile" /\ EventsEmitUpdated(c)
  \/ SendSetWaiting(c)
  \/ SendPrepare(c)
  \/ SendReturns(c)

\* The caller makes SendFile and ReceiveFile calls that overlap; nobody
\* answers a prompt. Every step of a send unit is taken in the end: the
\* scheduler runs the goroutine and each collaborator call returns.
CallStepNoOperator ==
  \E c \in Calls :
    \/ SendFileBegin(c)
    \/ ReceiveFileBegin(c)
    \/ Register(c)
    \/ Launch(c)

NextNoOperator == CallStepNoOperator \/ UnitStep

SpecSendFair ==
  /\ Init
  /\ [][NextNoOperator]_vars
  /\ \A c \in Calls : WF_vars(PerformSendStep(c))

\* ---------------------------------------------------------------- claims
Cells == { <<k, j>> \in (1..Len(heap)) \X (1..MaxCalls) : j <= Len(heap[k]) }

Last(s) == s[Len(s)]

\* the unit of call c takes a step
UnitMoves(c) == ptr[c] > 0 /\ pc'[c] # pc[c]

\* the unit of call c stores into the record its pointer designates
UnitWrites(c) == UnitMoves(c) /\ heap'[ptr[c]][1] # heap[ptr[c]][1]

\* the unit of call c emits transfer:updated
UnitEmits(c) == Len(notes'[c]) > Len(notes[c])

\* C1: no two records of the registry carry the same id.
C1_UniqueIds ==
  \A i, j \in 1..Len(transfers) :
    i # j => transfers[i].ID # transfers[j].ID

\* C2: when the unit of a transfer changes its record, GetTransfers called
\* after the change returns a record with the transfer's id that shows the
\* new values.
C2_ChangesVisible ==
  [][\A c \in Calls :
       UnitWrites(c) =>
         \E j \in 1..Len(GetTransfers') :
           /\ GetTransfers'[j].ID = callRec[c].ID
           /\ GetTransfers'[j] = heap'[ptr[c]][1]]_vars

\* C3: a step of the unit launched by a call changes no record other than
\* the one whose id the call returned.
C3_OwnRecordOnly ==
  [][\A c \in Calls :
       UnitMoves(c) =>
         \A cell \in Cells :
           heap'[cell[1]][cell[2]] # heap[cell[1]][cell[2]]
             => heap[cell[1]][cell[2]].ID = callRec[c].ID]_vars

\* C4: a record with status completed or error keeps its status and its
\* progress, and no later transfer:updated for its id carries another status.
C4_TerminalFrozen ==
  [][/\ \A cell \in Cells :
          heap[cell[1]][cell[2]].Status \in Terminal =>
            /\ heap'[cell[1]][cell[2]].Status = heap[cell[1]][cell[2]].Status
            /\ heap'[cell[1]][cell[2]].Progress = heap[cell[1]][cell[2]].Progress
     /\ \A c \in Calls :
          UnitEmits(c) =>
            \A cell \in Cells :
              ( /\ heap[cell[1]][cell[2]].ID = Last(notes'[c]).ID
                /\ heap[cell[1]][cell[2]].Status \in Terminal )
                => Last(notes'[c]).Status = heap[cell[1]][cell[2]].Status]_vars

\* the edges of the status machine of one direction
Edge(dir, from, to) ==
  \/ from \notin Terminal /\ to = FileTransferStatusError
  \/ /\ dir = "send"
     /\ <<from, to>> \in
          { <<FileTransferStatusPreparing, FileTransferStatusWaiting>>,
            <<FileTransferStatusWaiting, FileTransferStatusSending>>,
            <<FileTransferStatusSending, FileTransferStatusCompleted>> }
  \/ /\ dir = "receive"
     /\ <<from, to>> \in
          { <<FileTransferStatusPreparing, FileTransferStatusReceiving>>,
            <<FileTransferStatusReceiving, FileTransferStatusCompleted>> }

\* the creation status followed by the statuses the unit of call c notified
StatusTrail(c) ==
  <<callRec[c].Status>> \o [i \in 1..Len(notes[c]) |-> notes[c][i].Status]

LegalPath(dir, trail) ==
  \A i \in 1..(Len(trail) - 1) :
    trail[i] = trail[i + 1] \/ Edge(dir, trail[i], trail[i + 1])

\* C5: the statuses a transfer takes form a path of the machine of its
\* direction, and a send has status sending while the blocking send runs.
C5_LegalStatusPath ==
  \A c \in Calls :
    ptr[c] > 0 =>
      /\ LegalPath(callRec[c].ID[1], StatusTrail(c))
      /\ pc[c] = "s_send" => Deref(c).Status = FileTransferStatusSending

Rank(status) ==
  CASE status = FileTransferStatusPreparing -> 0
    [] status = FileTransferStatusWaiting -> 1
    [] status = FileTransferStatusSending -> 2
    [] status = FileTransferStatusReceiving -> 2
    [] status = FileTransferStatusCompleted -> 3
    [] OTHER -> 4

\* C6: a status change a unit makes to its own record strictly increases
\* the rank or goes to error, and error is never left.
C6_NoRegression ==
  [][\A c \in Calls :
       (UnitWrites(c) /\ Deref(c).ID = callRec[c].ID
          /\ heap'[ptr[c]][1].Status # Deref(c).Status)
         => /\ Deref(c).Status # FileTransferStatusError
            /\ \/ heap'[ptr[c]][1].Status = FileTransferStatusError
               \/ Rank(heap'[ptr[c]][1].Status) > Rank(Deref(c).Status)]_vars

\* a unit has made channel ch, has not yet taken a decision from it, and
\* is at or on its way to the receive
Receivable(ch) ==
  \E c \in Calls : ch = Chan(c, idx[c]) /\ pc[c] \in {"r_prompt", "r_wait"}

\* C7: every RespondToOverwrite call returns: a call that is sending on a
\* channel always has a unit that will take the value.
C7_EveryCallReturns ==
  \A r \in Responders : rPc[r] = "send" => Receivable(rChan[r])

\* C8: RespondToOverwrite for an id without a pending slot returns at once
\* and changes neither the pending-decision map nor any record: a call
\* goes on to the send only for an id that has a slot, and otherwise it has
\* returned with the map and the records as they were.
C8_NoSlotNoEffect ==
  [][\A r \in Responders :
       rPc[r] = "idle" /\ rPc'[r] # "idle" =>
         \/ /\ rPc'[r] = "send"
            /\ rId'[r] \in DOMAIN overwriteResponses
            /\ rChan'[r] = overwriteResponses[rId'[r]]
         \/ /\ rPc'[r] = "done"
            /\ overwriteResponses' = overwriteResponses
            /\ heap' = heap]_vars

\* a call for an id that was never requested has returned, and a second
\* call has returned although only one decision was ever taken
C8_Witness ==
  /\ rPc[1] = "done"
  /\ rPc[2] = "done"
  /\ \E c \in Calls :
       /\ Len(got[c]) = 1
       /\ \A d \in Calls \ {c} : pc[d] = "none"

\* C9: the send of RespondToOverwrite(id, d) completes only by handing d to
\* the unit waiting on the channel found under id, and when the call
\* returns the pending-decision map has no entry for id.
C9_DeliversAndRemoves ==
  [][\A r \in Responders :
       /\ rPc[r] = "send" /\ rPc'[r] # "send" =>
            /\ rPc'[r] = "delete"
            /\ \E c \in Calls :
                 /\ pc[c] = "r_wait"
                 /\ rChan[r] = Chan(c, idx[c])
                 /\ Deref(c).ID = rId[r]
                 /\ got'[c] = Append(got[c], rResp[r])
                 /\ \A d \in Calls \ {c} : got'[d] = got[d]
       /\ rPc[r] = "delete" /\ rPc'[r] # "delete" =>
            /\ rPc'[r] = "done"
            /\ rId[r] \notin DOMAIN overwriteResponses']_vars

\* a call has handed "yes" to the waiting unit and returned, the map is empty
C9_Witness ==
  /\ rPc[1] = "done"
  /\ rPc[2] = "idle"
  /\ DOMAIN overwriteResponses = {}
  /\ \E c \in Calls : got[c] = <<"yes">>

\* C10: while a unit is blocked on a prompt, a decision the operator submits
\* for its id is not dropped: the slot of the prompt is in the map, or a
\* decision is already on its way to the unit.
C10_DecisionReachesUnit ==
  \A c \in Calls :
    pc[c] = "r_wait" =>
      \/ /\ Deref(c).ID \in DOMAIN overwriteResponses
         /\ overwriteResponses[Deref(c).ID] = Chan(c, idx[c])
      \/ \E r \in Responders : rPc[r] = "send" /\ rChan[r] = Chan(c, idx[c])

\* C11: at most one overwrite decision request is outstanding per transfer
\* id: no two units are between registering a slot and taking its decision
\* under the same id.
C11_OneRequestPerId ==
  \A c, d \in Calls :
    ( /\ c # d
      /\ pc[c] \in {"r_prompt", "r_wait"}
      /\ pc[d] \in {"r_prompt", "r_wait"} )
      => Deref(c).ID # Deref(d).ID


\* C12: a receive unit emits exactly one transfer:overwrite for each file
\* whose destination exists, after it put the slot for transfer.ID into the
\* map and before it blocks on the decision, and none for a file whose
\* destination does not exist.
C12_OnePromptPerCollision ==
  /\ [](\A c \in Calls :
          /\ pc[c] \in {"r_file", "r_prompt", "r_move", "r_finish"}
               => Len(prompts[c]) = Len(got[c])
          /\ pc[c] = "r_wait" => Len(prompts[c]) = Len(got[c]) + 1)
  /\ [][\A c \in Calls :
          /\ pc[c] = "r_file" /\ pc'[c] # "r_file" =>
               /\ prompts'[c] = prompts[c]
               /\ IF batch[c][idx[c]] \in dest
                  THEN /\ pc'[c] = "r_prompt"
                       /\ Deref(c).ID \in DOMAIN overwriteResponses'
                       /\ overwriteResponses'[Deref(c).ID] = Chan(c, idx[c])
                  ELSE /\ pc'[c] = "r_move"
                       /\ overwriteResponses' = overwriteResponses
          /\ pc[c] = "r_prompt" /\ pc'[c] # "r_prompt" => pc'[c] = "r_wait"
          /\ pc[c] # "r_wait" /\ pc'[c] = "r_wait" => pc[c] = "r_prompt"
          /\ prompts'[c] # prompts[c] =>
               /\ pc[c] = "r_prompt"
               /\ pc'[c] = "r_wait"
               /\ prompts'[c] =
                    Append(prompts[c],
                           OverwritePrompt(Deref(c).ID, batch[c][idx[c]]))]_vars

\* a unit moved "b", which was not there, without a prompt and is blocked on
\* the one prompt it emitted for "a"
C12_Witness ==
  \E c \in Calls :
    /\ pc[c] = "r_wait"
    /\ fileNames[c] = <<"b">>
    /\ Len(prompts[c]) = 1
    /\ prompts[c][1].FileName = "a"


\* C13: a receive unit moves a file onto a name that exists in the
\* destination only after it took the decision "yes" for the prompt it
\* emitted for that file.
C13_ReplacedOnlyOnYes ==
  [][\A c \in Calls :
       ( /\ pc[c] = "r_move"
         /\ fileNames'[c] # fileNames[c]
         /\ batch[c][idx[c]] \in dest )
         => /\ Len(got[c]) > 0
            /\ Len(prompts[c]) = Len(got[c])
            /\ Last(got[c]) = "yes"
            /\ Last(prompts[c]).FileName = batch[c][idx[c]]]_vars


C15_ReceiveTerminates ==
  \A c \in Calls :
    (pc[c] \in {"r_recv", "t_select"})
      ~> (pc[c] \notin {"r_recv", "t_select"})

\* C16: when a receive ended in error through the timeout, no file of that
\* receive is in the destination directory, then or later.
C16_NothingLandsOnTimeout ==
  \A c \in Calls :
    timedOut[c] => \A w \in written[c] : w[1] # DestDir


\* C17: with no other receive overlapping it, a receive unit finds the
\* working directory the process started in and, whichever way it returns
\* (early error, timeout, failed move, success), leaves that directory as
\* the working directory.
C17_WorkingDirRestored ==
  /\ [](\A c \in Calls :
          pc[c] \in {"r_start", "r_e1", "r_setup"} => cwd = StartDir)
  /\ [](ReceiveIdle => cwd = StartDir)
  /\ [][\A c \in Calls :
          ( /\ callRec[c].ID[1] = "receive"
            /\ pc[c] \in {"e_err", "e_done"}
            /\ pc'[c] = "done" )
            => cwd' = StartDir]_vars

\* one receive returned through the timeout and another one after moving a
\* file out of its temporary directory; the working directory is the one
\* the process started in
C17_Witness ==
  \E c, d \in Calls :
    /\ pc[c] = "done"
    /\ pc[d] = "done"
    /\ timedOut[c]
    /\ Deref(d).Status = FileTransferStatusCompleted
    /\ Len(prompts[d]) > 0
    /\ cwd = StartDir


\* the ids of a list of records, in order
Ids(records) == [i \in 1..Len(records) |-> records[i].ID]

\* the calls that have inserted their record
Registered == { c \in Calls : callPc[c] \in {"registered", "returned"} }

\* C18: with registrations made one after the other, GetTransfers lists the
\* records most recent first: every registration puts its record in front
\* of the ids that were there, in their order, nothing else changes the ids
\* listed, and the record of a later call stands before that of an earlier.
C18_MostRecentFirst ==
  /\ [](\A c \in Registered :
          /\ Cardinality({ d \in Registered : d >= c }) <= Len(GetTransfers)
          /\ GetTransfers[Cardinality({ d \in Registered : d >= c })].ID
               = callRec[c].ID)
  /\ [][/\ \A c \in Calls :
            callPc[c] = "built" /\ callPc'[c] = "registered" =>
              Ids(GetTransfers') = <<callRec[c].ID>> \o Ids(GetTransfers)
        /\ Ids(GetTransfers') # Ids(GetTransfers) =>
              \E c \in Calls :
                callPc[c] = "built" /\ callPc'[c] = "registered"]_vars

\* two calls registered after two earlier transfers: four records, the
\* second call first
C18_Witness ==
  /\ Registered = {1, 2}
  /\ Len(GetTransfers) = 4
  /\ GetTransfers[1].ID = callRec[2].ID
  /\ GetTransfers[2].ID = callRec[1].ID
  /\ GetTransfers[3].ID = PriorTransfer(2).ID

\* C19: with registrations made one at a time, a call builds the id
\* send-<n> (SendFile) or receive-<n> (ReceiveFile) with n the registry
\* length at that moment, which is still the length when the record is
\* inserted; one counter serves both directions, so the k-th record
\* registered has suffix k - 1.
C19_IdIsLengthBefore ==
  /\ [](\A i \in 1..Len(GetTransfers) :
          /\ GetTransfers[i].ID[1] \in {"send", "receive"}
          /\ GetTransfers[i].ID[2] = Len(GetTransfers) - i)
  /\ [][\A c \in Calls :
          /\ callPc[c] = "idle" /\ callPc'[c] = "built" =>
               callRec'[c].ID =
                 Sprintf(IF callRec'[c].Code \in ReceiveCodes
                         THEN "receive" ELSE "send", Len(GetTransfers))
          /\ callPc[c] = "built" /\ callPc'[c] = "registered" =>
               callRec[c].ID[2] = Len(GetTransfers)]_vars

\* a send and then a receive registered after two earlier transfers
C19_Witness ==
  /\ Len(GetTransfers) = 4
  /\ GetTransfers[1].ID = Sprintf("receive", 3)
  /\ GetTransfers[2].ID = Sprintf("send", 2)
  /\ GetTransfers[4].ID = Sprintf("send", 0)

\* C20: SendFile on a path that cannot be stat'd returns the error and an
\* empty id and changes nothing: no record is built or inserted, the
\* registry and its length stay as they were and no unit is launched; every
\* send record comes from a path that could be stat'd.
C20_StatFailureNoRecord ==
  /\ [](\A c \in Calls :
          /\ callPc[c] = "failed" =>
               /\ callRec[c] = NoTransfer
               /\ ptr[c] = 0
               /\ pc[c] = "none"
          /\ callPc[c] \in {"built", "registered", "returned"} =>
               \A i \in 1..Len(callRec[c].Files) : StatOk(callRec[c].Files[i]))
  /\ [][\A c \in Calls :
          callPc[c] = "idle" /\ callPc'[c] = "failed" =>
            /\ heap' = heap
            /\ AppLen' = AppLen
            /\ GetTransfers' = GetTransfers
            /\ pc' = pc
            /\ ptr' = ptr
            /\ overwriteResponses' = overwriteResponses]_vars

\* a SendFile failed on a registry of one record, which is still all there is
C20_Witness ==
  /\ callPc[1] = "returned"
  /\ callPc[2] = "failed"
  /\ AppLen = 1
  /\ GetTransfers[1].ID = callRec[1].ID


\* C21: SendFile returns without waiting for its unit, and at the moment it
\* returns the head of GetTransfers has the returned id, the name and size
\* found by os.Stat, and status preparing.
C21_HeadAfterSendFile ==
  [][\A c \in Calls :
       ( /\ callArg[c][1] = "SendFile"
         /\ callPc[c] = "launched"
         /\ callPc'[c] = "returned" )
         => /\ GetTransfers'[1].ID = callRec[c].ID
            /\ GetTransfers'[1].Name = PlainName(callArg[c][2])
            /\ GetTransfers'[1].Size = FileSize(callArg[c][2])
            /\ GetTransfers'[1].Status = FileTransferStatusPreparing]_vars


\* C22: ReceiveFile never fails: it builds a record with the code it was
\* given and status preparing, inserts exactly that record at the head, and
\* returns its id, which is the id at the head of GetTransfers when the call
\* returns (calls made one after the other).
C22_ReceiveFileRegisters ==
  /\ [](\A c \in Calls : callArg[c][1] = "ReceiveFile" => callPc[c] # "failed")
  /\ [][\A c \in Calls :
          /\ ( callPc[c] = "idle" /\ callArg'[c][1] = "ReceiveFile" )
               => /\ callPc'[c] = "built"
                  /\ callRec'[c].Code = callArg'[c][2]
                  /\ callRec'[c].Status = FileTransferStatusPreparing
          /\ ( /\ callArg[c][1] = "ReceiveFile"
               /\ callPc[c] = "built"
               /\ callPc'[c] = "registered" )
               => /\ Len(GetTransfers') = Len(GetTransfers) + 1
                  /\ GetTransfers'[1] = callRec[c]
                  /\ GetTransfers'[1].Code = callArg[c][2]
                  /\ GetTransfers'[1].Status = FileTransferStatusPreparing
          /\ ( /\ callArg[c][1] = "ReceiveFile"
               /\ callPc[c] = "launched"
               /\ callPc'[c] = "returned" )
               => /\ GetTransfers'[1].ID = callRec[c].ID
                  /\ GetTransfers'[1].Code = callArg[c][2]]_vars

\* a ReceiveFile has returned while its unit is still at work, its record
\* at the head of three
C22_Witness ==
  \E c \in Calls :
    /\ callArg[c] = <<"ReceiveFile", "code">>
    /\ callPc[c] = "returned"
    /\ pc[c] = "r_recv"
    /\ Len(GetTransfers) = 3
    /\ GetTransfers[1].ID = callRec[c].ID
    /\ GetTransfers[1].Code = "code"


\* C23: a failure inside a unit sets the status error, the unit's next
\* step is a transfer:updated carrying status error, and after it the unit
\* takes no step; the call that launched the unit is not affected.
C23_FailureBecomesError ==
  [][\A c \in Calls :
       /\ ( pc[c] # "e_err" /\ pc'[c] = "e_err" )
            => /\ heap'[ptr[c]][1].Status = FileTransferStatusError
               /\ callPc'[c] = callPc[c]
       /\ ( pc[c] = "e_err" /\ pc'[c] # "e_err" )
            => /\ pc'[c] = "done"
               /\ UnitEmits(c)
               /\ Last(notes'[c]).Status = FileTransferStatusError
       /\ pc[c] = "done" => pc'[c] = "done"]_vars


\* C24: every record an observer gets from GetTransfers, while units are
\* at work on their records, has one of the six statuses.
C24_StatusInSet ==
  \A j \in 1..Len(seen) : seen[j] \in Statuses


\* C25: the last notification of a send whose collaborator calls all
\* succeeded carries the send's id, status completed, progress 100, the
\* names of the manifest and the size found by os.Stat; the size of a send
\* record never changes.
C25_SendCompletes ==
  [][/\ \A c \in Calls :
          ( /\ callArg[c][1] = "SendFile"
            /\ pc[c] = "e_done"
            /\ pc'[c] = "done" )
            => /\ Last(notes'[c]).ID = callRec[c].ID
               /\ Last(notes'[c]).Status = FileTransferStatusCompleted
               /\ Last(notes'[c]).Progress = 100
               /\ Last(notes'[c]).Files = callRec[c].Files
               /\ Last(notes'[c]).Size = FileSize(callArg[c][2])
     /\ \A cell \in Cells :
          heap[cell[1]][cell[2]].ID[1] = "send" =>
            heap'[cell[1]][cell[2]].Size = heap[cell[1]][cell[2]].Size]_vars


\* C26: getFileDiff(a, b) on two readable files returns exactly
\* "Files are identical." if and only if their contents are equal (so always
\* for a = b), and otherwise a text with the lines "--- a/<base of a>" and
\* "+++ b/<base of b>"; if either file cannot be read it returns an error
\* and no text.
C26_GetFileDiff ==
  diffArgs # <<>> =>
    LET a == diffArgs[1]
        b == diffArgs[2]
        lines == { diffOut.text[i] : i \in 1..Len(diffOut.text) }
    IN  IF files[a].ok /\ files[b].ok
        THEN /\ ~diffOut.err
             /\ (diffOut.text = IdenticalText) <=> (files[a].data = files[b].data)
             /\ a = b => diffOut.text = IdenticalText
             /\ files[a].data # files[b].data =>
                  /\ ("--- a/" \o a[Len(a)]) \in lines
                  /\ ("+++ b/" \o b[Len(b)]) \in lines
        ELSE /\ diffOut.err
             /\ diffOut.text = NoText

\* two readable files of different contents and different base names
\* were compared
C26_Witness ==
  /\ diffArgs # <<>>
  /\ files[diffArgs[1]].ok
  /\ files[diffArgs[2]].ok
  /\ files[diffArgs[1]].data # files[diffArgs[2]].data
  /\ diffArgs[1][2] # diffArgs[2][2]
  /\ Len(diffOut.text) = 3


\* the unit of call c failed in os.MkdirAll or os.Rename and has not
\* returned yet
FailedInMove(c) == pc[c] = "e_err" /\ batch[c] # <<>>

\* C27: when os.MkdirAll or os.Rename fails for a file of a receive batch,
\* the unit stores status error in its record, its next and last step is a
\* transfer:updated, and before it the unit moves no further file, emits no
\* prompt and stores nothing: it never stores completed.
C27_MoveFailureStops ==
  [][\A c \in Calls :
       /\ ( pc[c] = "r_move" /\ pc'[c] \notin {"r_move", "r_file", "r_finish"} )
            => /\ pc'[c] = "e_err"
               /\ heap'[ptr[c]][1].Status = FileTransferStatusError
               /\ dest' = dest
               /\ fileNames'[c] = fileNames[c]
       /\ ( pc[c] = "r_move" /\ pc'[c] \in {"r_file", "r_finish"} )
            => batch[c][idx[c]] \in dest'
       /\ ( FailedInMove(c) /\ UnitMoves(c) )
            => /\ pc'[c] = "done"
               /\ UnitEmits(c)
               /\ prompts'[c] = prompts[c]
               /\ dest' = dest
               /\ heap' = heap]_vars

\* the move of the first of two files failed: the unit is about to emit,
\* its record has status error and the second file is where it was
C27_Witness ==
  \E c \in Calls :
    /\ FailedInMove(c)
    /\ idx[c] = 1
    /\ Len(batch[c]) = 2
    /\ batch[c][2] \notin dest
    /\ Deref(c).Status = FileTransferStatusError


\* the unit of call c failed with no file to process and has not returned
FailedWithoutFiles(c) == pc[c] = "e_err" /\ batch[c] = <<>>

\* C28: a receive unit leaves the collaborator's receive either with a
\* batch of at least one file or, when the receive failed or no file was
\* found, with status error stored in its record; in the second case its
\* next and last step is a transfer:updated: it emits no overwrite prompt
\* and stores nothing, so it never stores completed.
C28_NoFilesIsError ==
  [][\A c \in Calls :
       /\ ( pc[c] = "r_recv" /\ pc'[c] # "r_recv" )
            => \/ /\ pc'[c] = "r_file"
                  /\ batch'[c] # <<>>
               \/ /\ pc'[c] = "e_err"
                  /\ batch'[c] = <<>>
                  /\ heap'[ptr[c]][1].Status = FileTransferStatusError
       /\ ( FailedWithoutFiles(c) /\ UnitMoves(c) )
            => /\ pc'[c] = "done"
               /\ UnitEmits(c)
               /\ prompts[c] = <<>>
               /\ prompts'[c] = <<>>
               /\ dest' = dest
               /\ heap' = heap]_vars

\* a unit that was in its temporary directory found no file: status error,
\* no prompt, about to emit
C28_Witness ==
  \E c \in Calls :
    /\ FailedWithoutFiles(c)
    /\ cwd = TempDir(c)
    /\ Len(notes[c]) = 1
    /\ prompts[c] = <<>>
    /\ Deref(c).Status = FileTransferStatusError


\* the names the unit of call c was told not to overwrite
SkippedNames(c) ==
  { prompts[c][i].FileName : i \in { k \in 1..Len(got[c]) : got[c][k] # "yes" } }

IsMoved(c, n) == n \notin SkippedNames(c)

\* the files of the batch of call c that were not skipped, in batch order
MovedNames(c) ==
  LET keep == { i \in 1..Len(batch[c]) : IsMoved(c, batch[c][i]) }
      RECURSIVE Pick(_)
      Pick(i) == IF i > Len(batch[c]) THEN <<>>
                 ELSE IF i \in keep THEN <<batch[c][i]>> \o Pick(i + 1)
                 ELSE Pick(i + 1)
  IN  Pick(1)

RECURSIVE SumOfSizes(_)
SumOfSizes(names) ==
  IF names = <<>> THEN 0
  ELSE FileSize(Head(names)) + SumOfSizes(Tail(names))

\* the unit of call c makes its final assignments
UnitFinishes(c) == pc[c] = "r_finish" /\ pc'[c] # "r_finish"

C30_AllSkippedCompletes ==
  [][\A c \in Calls :
       ( UnitFinishes(c) /\ MovedNames(c) = <<>> )
         => LET final == heap'[ptr[c]][1]
            IN  /\ pc'[c] = "e_done"
                /\ final.Status = FileTransferStatusCompleted
                /\ final.Progress = 100
                /\ final.Name = <<"File received">>
                /\ final.Files = <<>>
                /\ final.Size = 0
                /\ Len(got[c]) = Len(batch[c])]_vars

\* a unit was told "no" for both files of its batch and stored the final
\* record
C30_Witness ==
  \E c \in Calls :
    /\ pc[c] = "e_done"
    /\ Len(batch[c]) = 2
    /\ got[c] = <<"no", "no">>
    /\ Deref(c).Status = FileTransferStatusCompleted
    /\ Deref(c).Name = <<"File received">>
    /\ Deref(c).Files = <<>>


\* the files the collaborator materialized for the unit of call c
Materialized(c) == { batch[c][i] : i \in 1..Len(batch[c]) }

\* the names the unit of call c prompted for, in the order of its prompts
PromptedNames(c) == [i \in 1..Len(prompts[c]) |-> prompts[c][i].FileName]

\* the decision the unit of call c took for each name it prompted for
DecisionOf(c) ==
  { <<prompts[c][i].FileName, got[c][i]>> : i \in 1..Len(got[c]) }

\* the unit of call c is a receive that has gone through its whole batch
RunEnded(c) == callArg[c][1] = "ReceiveFile" /\ pc[c] = "e_done"

\* C31: two receive runs that were given the same set of files, found the
\* same of them present in the destination and took the same decisions
\* emit their prompts in the same order and end with the same file list
\* and the same name.
C31_OrderIsFunctionOfSet ==
  \A c1, c2 \in Calls :
    ( /\ RunEnded(c1)
      /\ RunEnded(c2)
      /\ Materialized(c1) = Materialized(c2)
      /\ DecisionOf(c1) = DecisionOf(c2) )
      => /\ PromptedNames(c1) = PromptedNames(c2)
         /\ fileNames[c1] = fileNames[c2]
         /\ FinalName(fileNames[c1]) = FinalName(fileNames[c2])


\* the file the unit of call c is about to move was listed in a
\* subdirectory of the temporary area only, and the destination has no file
\* of its name
NestedFileToMove(c) ==
  /\ pc[c] = "r_move"
  /\ batch[c][idx[c]] \notin dest
  /\ SourcePath(batch[c][idx[c]]) \notin temp[c].files
  /\ \E p \in temp[c].files : p[2] = batch[c][idx[c]]

\* the unit of call c moves the file it is at
MoveSucceeds(c) ==
  /\ ReceiveMoveFromTemp(c)
  /\ batch[c][idx[c]] \in dest'
  /\ fileNames'[c] = Append(fileNames[c], batch[c][idx[c]])

\* C32: the listing of the temporary area holds every file at any depth
\* and nothing else, and a file listed in a subdirectory, with no file of
\* its base name in the destination, can be moved: the step that moves it
\* to <destination>/<base name> and lists it is possible.
C32_NestedFileIsMoved ==
  /\ [](\A c \in Calls : NestedFileToMove(c) => ENABLED MoveSucceeds(c))
  /\ [][\A c \in Calls :
          ( pc[c] = "r_recv" /\ pc'[c] = "r_file" )
            => /\ Len(batch'[c]) = Cardinality(temp'[c].files)
               /\ \A p \in temp'[c].files :
                    \E i \in 1..Len(batch'[c]) : batch'[c][i] = p[2]]_vars


\* the status a unit has stored when it is about to emit at p
StatusStoredAt(p) ==
  CASE p = "s_e1" -> FileTransferStatusWaiting
    [] p = "s_e2" -> FileTransferStatusWaiting
    [] p = "r_e1" -> FileTransferStatusReceiving
    [] p = "t_e2" -> FileTransferStatusReceiving
    [] p = "e_err" -> FileTransferStatusError
    [] p = "e_done" -> FileTransferStatusCompleted

\* C33: every store a unit makes into its record (status, progress, name,
\* file list, size) is followed, as the next step of the unit, by a
\* transfer:updated, and that notification carries the status the unit
\* stored, with the progress and the file list it stored with it.
C33_EveryChangeIsNotified ==
  [][\A c \in Calls :
       /\ UnitWrites(c) => pc'[c] \in EmitPcs
       /\ ( pc[c] \in EmitPcs /\ UnitMoves(c) )
            => /\ UnitEmits(c)
               /\ Last(notes'[c]).Status = StatusStoredAt(pc[c])
               /\ pc[c] = "e_done" => Last(notes'[c]).Progress = 100
               /\ pc[c] = "s_e2"
                    => /\ Last(notes'[c]).Progress = 0
                       /\ Last(notes'[c]).Files = callRec[c].Files]_vars


\* the unit of call c is blocked on response := <-responseChan
AwaitsDecision(c) == pc[c] = "r_wait"

\* C34: a unit that has emitted a prompt waits for the decision, and while
\* RespondToOverwrite is not called it stays there whatever else happens:
\* its record keeps status receiving, the map keeps the slot of its id and
\* its temporary directory stays; it reaches neither completed nor error.
C34_WaitHasNoTimeout ==
  /\ [](\A c \in Calls :
          AwaitsDecision(c)
            => /\ Deref(c).Status = FileTransferStatusReceiving
               /\ Deref(c).ID \in DOMAIN overwriteResponses
               /\ temp[c].there)
  /\ [][\A c \in Calls :
          /\ ( pc[c] = "r_prompt" /\ pc'[c] # "r_prompt" )
               => AwaitsDecision(c)'
          /\ AwaitsDecision(c) => AwaitsDecision(c)']_vars

\* a unit is blocked on a decision while a later transfer has come and gone
C34_Witness ==
  \E c, d \in Calls :
    /\ AwaitsDecision(c)
    /\ temp[c].there
    /\ pc[d] = "done"


\* the unit of call c returns: its last deferred call runs
UnitReturns(c) == pc[c] = "d_cd" /\ pc'[c] = "done"

\* C35: when a receive unit that made a temporary directory returns, by
\* whatever path, the directory is gone, and it was gone before the working
\* directory was restored.
C35_TempDirRemoved ==
  [][\A c \in Calls :
       ( UnitReturns(c) /\ temp[c].made )
         => /\ ~temp[c].there
            /\ ~temp'[c].there]_vars


\* the progress values the units store
Milestones == {0, 50, 100}

\* C36: every transfer:updated carries a progress among 0, 50 and 100, and
\* carries 100 exactly when it carries status completed; a failure leaves
\* the progress of the record as it was, and the notification of the
\* failure carries that value.
C36_ProgressMilestones ==
  /\ [](\A c \in Calls : \A i \in 1..Len(notes[c]) :
          /\ notes[c][i].Progress \in Milestones
          /\ (notes[c][i].Progress = 100)
               <=> (notes[c][i].Status = FileTransferStatusCompleted))
  /\ [][\A c \in Calls :
          /\ ( pc[c] # "e_err" /\ pc'[c] = "e_err" )
               => heap'[ptr[c]][1].Progress = heap[ptr[c]][1].Progress
          /\ ( pc[c] = "e_err" /\ pc'[c] = "done" )
               => Last(notes'[c]).Progress = heap[ptr[c]][1].Progress]_vars


\* C37: no registration is lost: the registry holds one record for every
\* call that has inserted, so that once n calls have returned and none is
\* under way Len() is n and GetTransfers returns n records, in whatever way
\* the calls overlapped; the length of the registry never decreases.
C37_NoRegistrationLost ==
  /\ [](/\ AppLen = Cardinality(Registered)
        /\ Len(GetTransfers) = Cardinality(Registered))
  /\ [][Len(transfers') >= Len(transfers)]_vars

\* every call has returned after registrations that overlapped (two
\* records got the same id) and the registry holds a record for each
C37_Witness ==
  /\ \A c \in Calls : callPc[c] = "returned"
  /\ AppLen = MaxCalls
  /\ \E i, j \in 1..AppLen : i # j /\ transfers[i].ID = transfers[j].ID


\* C38: a send unit that was launched returns in the end, provided its
\* collaborator calls return, with nobody answering any prompt; the step by
\* which it leaves the collaborator calls stores completed or error in the
\* record its pointer designates, and that is its last write.
C38_SendTerminates ==
  /\ \A c \in Calls : (pc[c] \in SendPcs) ~> (pc[c] = "done")
  /\ [][\A c \in Calls :
          /\ ( pc[c] \in SendPcs /\ pc'[c] \notin SendPcs )
               => /\ pc'[c] \in {"e_err", "e_done"}
                  /\ heap'[ptr[c]][1].Status =
                       IF pc'[c] = "e_done" THEN FileTransferStatusCompleted
                                           ELSE FileTransferStatusError
          /\ ( pc[c] \in {"e_err", "e_done"} /\ callArg[c][1] = "SendFile" )
               => pc'[c] \in {pc[c], "done"}]_vars

\* a send unit has returned after crocClient.Send succeeded while a receive
\* unit is blocked on its prompt
C38_Witness ==
  \E c, d \in Calls :
    /\ callArg[c][1] = "SendFile"
    /\ pc[c] = "done"
    /\ Last(notes[c]).Status = FileTransferStatusCompleted
    /\ pc[d] = "r_wait"


\* the receive units that have returned
ReturnedReceives ==
  { c \in Calls : callArg[c][1] = "ReceiveFile" /\ pc[c] = "done" }

\* C39: when two receive units or more have run, overlapping or not, and
\* every receive unit launched has returned, the working directory of the
\* process is the one it had before any of them started.
C39_OverlappingReceivesRestore ==
  ( /\ ReceiveIdle
    /\ Cardinality(ReturnedReceives) >= 2 )
    => cwd = StartDir


\* C40: the goroutine that runs crocClient.Receive can always deliver its
\* result, before the timer fired or after: its send on errCh is possible
\* whenever the call is still running, the buffer being empty at every
\* send; a result delivered after the timeout changes no record and no
\* notification, and stays in the buffer.
C40_LateResultIsHarmless ==
  /\ [](\A c \in Calls : gPc[c] = "run" => ENABLED CollaboratorReturns(c))
  /\ [][\A c \in Calls :
          /\ ( errCh'[c] # errCh[c] /\ errCh'[c] # "" ) => errCh[c] = ""
          /\ ( timedOut[c] /\ gPc[c] = "run" /\ gPc'[c] = "exit" )
               => /\ heap' = heap
                  /\ notes' = notes
                  /\ pc' = pc
          /\ ( timedOut[c] /\ errCh[c] # "" )
               => errCh'[c] = errCh[c]]_vars

\* the unit returned through the timeout, its record says error, and the
\* collaborator call has delivered a success that nobody takes
C40_Witness ==
  \E c \in Calls :
    /\ timedOut[c]
    /\ pc[c] = "done"
    /\ gPc[c] = "exit"
    /\ errCh[c] = "nil"
    /\ Last(notes[c]).Status = FileTransferStatusError


====
